---- MODULE Spec2Model ----
(***************************************************************************)
(* Release changelog pipeline of release_notes.py: fetch_releases,         *)
(* filter_production_releases, get_commits_between_tags, summarize_commit, *)
(* generate_release_changelog and the two selection loops of main().       *)
(*                                                                         *)
(* Text is a sequence of pieces.  Tags, file names and console input are   *)
(* sequences of one-character pieces, so that replace, lower, strip, int   *)
(* and "in" are computed character by character.  Commit messages, patches *)
(* and LLM answers are opaque pieces; the texts built from them are        *)
(* sequences of such pieces and of the literal pieces the code inserts.    *)
(***************************************************************************)
EXTENDS Integers, Sequences, FiniteSets, TLC

(***************************************************************************)
(* Bounds of the model.                                                    *)
(***************************************************************************)
MaxPages == 2        \* pages of releases the remote serves before it must end
MaxCommits == 2      \* commits in one compare result
MaxTagLen == 3       \* characters of a tag in the file-name specification
MaxFiles == 3        \* files of a commit in the summarization specification

(***************************************************************************)
(* Python values.                                                          *)
(***************************************************************************)
\* None is the empty wrapper, Some(x) the one-element wrapper: Some(<<>>),
\* the empty string, differs from None.
None == <<>>
Some(x) == <<x>>
IsNone(o) == o = <<>>
Get(o) == o[1]

RECURSIVE Concat(_)
Concat(ss) == IF ss = <<>> THEN <<>> ELSE Head(ss) \o Concat(Tail(ss))

\* sep.join(parts)
RECURSIVE Join(_, _)
Join(sep, parts) ==
    IF parts = <<>> THEN <<>>
    ELSE IF Len(parts) = 1 THEN parts[1]
    ELSE parts[1] \o sep \o Join(sep, Tail(parts))

Count(c, s) == Cardinality({p \in 1..Len(s) : s[p] = c})

\* s.replace(old, new) for one-character old and new
Replace(s, old, new) == [p \in 1..Len(s) |-> IF s[p] = old THEN new ELSE s[p]]

\* the characters str.lower() changes, among those the model uses
LowerChar(c) ==
    CASE c = "Q" -> "q"
      [] c = "P" -> "p"
      [] OTHER -> c

Lower(s) == [p \in 1..Len(s) |-> LowerChar(s[p])]

\* sub in s
Contains(sub, s) ==
    \E p \in 0..(Len(s) - Len(sub)) : \A q \in 1..Len(sub) : s[p + q] = sub[q]

\* s.strip()
RECURSIVE LStrip(_)
LStrip(s) == IF s # <<>> /\ Head(s) = " " THEN LStrip(Tail(s)) ELSE s

RECURSIVE RStrip(_)
RStrip(s) ==
    IF s # <<>> /\ s[Len(s)] = " " THEN RStrip(SubSeq(s, 1, Len(s) - 1)) ELSE s

Strip(s) == RStrip(LStrip(s))

Digits == <<"0", "1", "2", "3", "4", "5", "6", "7", "8", "9">>

IsDigit(c) == \E d \in 1..10 : Digits[d] = c

DigitValue(c) == (CHOOSE d \in 1..10 : Digits[d] = c) - 1

RECURSIVE DecimalValue(_)
DecimalValue(s) ==
    IF s = <<>> THEN 0
    ELSE 10 * DecimalValue(SubSeq(s, 1, Len(s) - 1)) + DigitValue(s[Len(s)])

\* int(s): None stands for ValueError.  Surrounding blanks are ignored and one
\* sign is accepted, as int() does.
ParseInt(s) ==
    LET t == Strip(s)
        signed == t # <<>> /\ Head(t) \in {"-", "+"}
        body == IF signed THEN Tail(t) ELSE t
    IN  IF body = <<>> \/ \E p \in 1..Len(body) : ~IsDigit(body[p])
        THEN None
        ELSE Some(IF signed /\ Head(t) = "-" THEN 0 - DecimalValue(body)
                  ELSE DecimalValue(body))

\* Mutant of sanitize_filename: the second replace is forgotten.
sanitize_slash_only(filename) == Replace(filename, "/", "_")

(***************************************************************************)
(* sanitize_filename                                                       *)
(***************************************************************************)
sanitize_filename(filename) == Replace(Replace(filename, "/", "_"), "\\", "_")

(***************************************************************************)
(* What the remote and the LLM may answer, and what the user may type.     *)
(***************************************************************************)
Marker == <<"p", "r", "o", "d", "u", "c", "t", "i", "o", "n">>

\* Releases of the remote repository: tag_name is a string, name and body a
\* string or null.  Two tags differ only in a character sanitize_filename
\* rewrites; one release carries the marker nowhere.
ReleaseUniverse ==
    { [tag_name |-> <<"a", "/", "b">>,
       name |-> Some(<<"P", "r", "o", "d", "u", "c", "t", "i", "o", "n">>),
       body |-> None],
      [tag_name |-> <<"a", "_", "b">>,
       name |-> None,
       body |-> Some(<<"i", "n", " ">> \o Marker)],
      [tag_name |-> <<"v", "-">> \o Marker,
       name |-> Some(<<>>),
       body |-> Some(<<>>)],
      [tag_name |-> <<"b", "e", "t", "a">>,
       name |-> Some(<<"p", "r", "o", "d">>),
       body |-> None] }

Range(s) == {s[p] : p \in 1..Len(s)}

\* sequences of distinct elements of S, of length lo..hi
DistinctSeqs(S, lo, hi) ==
    UNION { {s \in [1..n -> S] : \A p, q \in 1..n : p # q => s[p] # s[q]}
            : n \in lo..hi }

\* One page of the releases endpoint: releases not served on an earlier page.
PageLen == 2
ReleasePages(served) == DistinctSeqs(ReleaseUniverse \ Range(served), 0, PageLen)

\* Commits of a compare result, as the compare endpoint returns them: no
\* detailed_diff key yet.
CommitUniverse ==
    { [sha |-> "c1", message |-> "m1", author |-> "u1", detailed_diff |-> None],
      [sha |-> "c2", message |-> "m2", author |-> "u2", detailed_diff |-> None] }

CommitLists == DistinctSeqs(CommitUniverse, 0, MaxCommits)

\* A file of a commit: filename, and patch (None when the key is absent).
FileChange(f, p) == [filename |-> f, patch |-> p]

Patches == {None, Some(""), Some("P1")}

FileChanges == {FileChange(f, p) : f \in {"f1", "f2"}, p \in Patches}

\* The "files" of a single-commit response in the session specification.
SessionFileLists ==
    { <<FileChange("f1", None), FileChange("f2", Some("P1"))>> }

\* The files of a commit in the summarization specification.
FileLists == UNION {[1..n -> FileChanges] : n \in 0..MaxFiles}

Summaries == {"s1", "s2"}
ChangelogTexts == {"L1"}

\* Lines typed at the mode prompt and at the selection prompts.
ModeInputs == {<<"1">>, <<"2">>, <<" ", "2", " ">>, <<"3">>, <<>>}

SelectionInputs ==
    { <<"q">>, <<"Q">>, <<"x">>, <<"1">>, <<"2">>, <<"3">>, <<"4">>, <<"-", "1">> }

(***************************************************************************)
(* State.                                                                  *)
(***************************************************************************)
VARIABLES
    pc,                   \* where the program is
    page,                 \* fetch_releases: next page to request
    releases,             \* fetch_releases: releases collected; then main's list
    responses,            \* history: the responses of the releases endpoint
    production_releases,  \* main: the filtered list
    mode,                 \* main: the mode line, stripped
    selection,            \* single mode: the line typed
    newer_release,        \* compare mode: the first line typed
    older_release,        \* compare mode: the second line typed
    current_release,      \* generate_release_changelog: current_release
    previous_tag,         \* generate_release_changelog: previous_tag
    commits,              \* get_commits_between_tags / generate_release_changelog
    d,                    \* get_commits_between_tags: commits whose diff was requested
    i,                    \* generate_release_changelog: commits summarized
    commit_summaries,     \* generate_release_changelog: commit_summaries
    changelog,            \* main: the consolidated changelog
    range_calls,          \* history: calls of get_commits_between_tags in this unit
    llm_calls,            \* history: calls of get_completion in this unit
    console,              \* the last report printed by main
    written,              \* history: the file written in this unit
    files,                \* paths of the files on disk
    last_call             \* history: the last hosting-API request of this unit

vars == <<pc, page, releases, responses, production_releases, mode, selection,
          newer_release, older_release, current_release, previous_tag, commits,
          d, i, commit_summaries, changelog, range_calls, llm_calls, console,
          written, files, last_call>>

fetchVars == <<page, releases, responses>>
inputVars == <<selection, newer_release, older_release>>
unitVars == <<current_release, previous_tag, commits, d, i, commit_summaries,
              changelog, range_calls, llm_calls, written>>

ApiCall(fn, outcome, reported, raised) ==
    [fn |-> fn, outcome |-> outcome, reported |-> reported, raised |-> raised]

NoCall == ApiCall("none", "none", FALSE, FALSE)

Init ==
    /\ pc = "fetch_releases"
    /\ page = 1
    /\ releases = <<>>
    /\ responses = <<>>
    /\ production_releases = <<>>
    /\ mode = <<>>
    /\ selection = <<>>
    /\ newer_release = <<>>
    /\ older_release = <<>>
    /\ current_release = None
    /\ previous_tag = None
    /\ commits = <<>>
    /\ d = 0
    /\ i = 0
    /\ commit_summaries = <<>>
    /\ changelog = None
    /\ range_calls = <<>>
    /\ llm_calls = <<>>
    /\ console = "Fetching releases..."
    /\ written = None
    /\ files = {}
    /\ last_call = NoCall

(***************************************************************************)
(* fetch_releases: one request of the while loop per step.                 *)
(***************************************************************************)
Response(p, status, items) == [page |-> p, status |-> status, items |-> items]

\* requests.get raises: nothing catches it in fetch_releases or around the
\* call in main, so the program ends with the exception.
FetchReleasesTimeout ==
    /\ pc = "fetch_releases"
    /\ responses' = Append(responses, Response(page, "timeout", <<>>))
    /\ last_call' = ApiCall("fetch_releases", "timeout", FALSE, TRUE)
    /\ pc' = "crashed"
    /\ UNCHANGED <<page, releases, production_releases, mode, inputVars,
                   unitVars, console, files>>

\* Mutant of FetchReleasesFailed: the pages collected so far are returned.
FetchReleasesFailedKeepsPages ==
    /\ pc = "fetch_releases"
    /\ responses' = Append(responses, Response(page, "non200", <<>>))
    /\ last_call' = ApiCall("fetch_releases", "non200", TRUE, FALSE)
    /\ pc' = "fetched"
    /\ UNCHANGED <<page, releases, production_releases, mode, inputVars,
                   unitVars, console, files>>

\* status_code != 200: print and return [].
FetchReleasesFailed ==
    /\ pc = "fetch_releases"
    /\ responses' = Append(responses, Response(page, "non200", <<>>))
    /\ last_call' = ApiCall("fetch_releases", "non200", TRUE, FALSE)
    /\ releases' = <<>>
    /\ pc' = "fetched"
    /\ UNCHANGED <<page, production_releases, mode, inputVars, unitVars,
                   console, files>>

\* status 200: an empty page ends the loop, any other page is appended.
FetchReleasesPage ==
    /\ pc = "fetch_releases"
    /\ \E page_releases \in ReleasePages(Concat([r \in 1..Len(responses) |-> responses[r].items])) :
        /\ page_releases # <<>> => page <= MaxPages
        /\ responses' = Append(responses, Response(page, "200", page_releases))
        /\ last_call' = ApiCall("fetch_releases", "200", FALSE, FALSE)
        /\ IF page_releases = <<>>
           THEN /\ pc' = "fetched"
                /\ UNCHANGED <<page, releases>>
           ELSE /\ releases' = releases \o page_releases
                /\ page' = page + 1
                /\ pc' = "fetch_releases"
    /\ UNCHANGED <<production_releases, mode, inputVars, unitVars, console, files>>

(***************************************************************************)
(* filter_production_releases                                              *)
(***************************************************************************)
Truthy(o) == ~IsNone(o) /\ Get(o) # <<>>

IsProduction(r) ==
    \/ Contains(Marker, Lower(r.tag_name))
    \/ (Truthy(r.name) /\ Contains(Marker, Lower(Get(r.name))))
    \/ (Truthy(r.body) /\ Contains(Marker, Lower(Get(r.body))))

filter_production_releases(rs) == SelectSeq(rs, IsProduction)

\* main, lines 168-178.  Nothing reads releases after line 173, and the
\* locals of fetch_releases ended with the call.
FilterReleases ==
    /\ pc = "fetched"
    /\ IF releases = <<>>
       THEN /\ console' = "No releases found."
            /\ pc' = "exit"
            /\ UNCHANGED production_releases
       ELSE /\ production_releases' = filter_production_releases(releases)
            /\ IF production_releases' = <<>>
               THEN /\ console' = "No production releases found."
                    /\ pc' = "exit"
               ELSE /\ console' = "Select mode:"
                    /\ pc' = "mode"
    /\ page' = 1
    /\ releases' = <<>>
    /\ responses' = <<>>
    /\ UNCHANGED <<mode, inputVars, unitVars, files, last_call>>

\* main, lines 185-194
SelectMode ==
    /\ pc = "mode"
    /\ \E line \in ModeInputs :
        /\ mode' = Strip(line)
        /\ IF mode' \notin {<<"1">>, <<"2">>}
           THEN /\ console' = "Invalid mode selected."
                /\ pc' = "exit"
           ELSE /\ console' = "releases listed"
                /\ pc' = "select"
    /\ UNCHANGED <<fetchVars, production_releases, inputVars, unitVars, files,
                   last_call>>

(***************************************************************************)
(* The selection loops of main.  A unit of work is one pass of a loop: one *)
(* release in single mode, one pair in compare mode.                       *)
(***************************************************************************)
ErrorReport ==
    IF mode = <<"1">> THEN "Error processing release"
    ELSE "Error processing comparison"

\* The locals of generate_release_changelog and get_commits_between_tags end
\* with the call.
DropLocals ==
    /\ commits' = <<>>
    /\ d' = 0
    /\ i' = 0
    /\ commit_summaries' = <<>>

\* Mutant of Raise: the handler reports and the loop ends.
RaiseEndsLoop ==
    /\ pc' = "exit"
    /\ console' = ErrorReport
    /\ DropLocals

\* except Exception, lines 234-235 and 280-281: report, next pass of the loop.
Raise ==
    /\ pc' = "select"
    /\ console' = ErrorReport
    /\ DropLocals

\* A new pass starts with nothing done for it.
NewUnit ==
    /\ changelog' = None
    /\ llm_calls' = <<>>
    /\ written' = None
    /\ last_call' = NoCall
    /\ DropLocals

\* No call of generate_release_changelog in this pass.
NoCallMade ==
    /\ current_release' = None
    /\ previous_tag' = None
    /\ range_calls' = <<>>

\* generate_release_changelog(repository, rel, prev) is entered; its first
\* statement calls get_commits_between_tags(repository, prev, rel["tag_name"]).
Enter(rel, prev) ==
    /\ current_release' = Some(rel)
    /\ previous_tag' = Some(prev)
    /\ range_calls' = <<[base |-> prev, head |-> rel.tag_name]>>
    /\ pc' = "compare"

InRange(idx) == 0 <= idx /\ idx < Len(production_releases)

\* Mutant of PreviousTag: the selected release itself is taken.
PreviousTagSelf(rs, idx) ==
    IF idx + 1 < Len(rs) THEN Some(rs[idx + 1].tag_name) ELSE None

\* line 210: the tag after position idx (0-based) in the filtered list
PreviousTag(rs, idx) ==
    IF idx + 1 < Len(rs) THEN Some(rs[idx + 2].tag_name) ELSE None

\* lines 200-233
SingleSelect ==
    /\ pc = "select"
    /\ mode = <<"1">>
    /\ \E line \in SelectionInputs :
        /\ selection' = line
        /\ NewUnit
        /\ IF Lower(line) = <<"q">>
           THEN /\ pc' = "exit"
                /\ NoCallMade
                /\ UNCHANGED console
           ELSE IF IsNone(ParseInt(line))
           THEN /\ pc' = "select"
                /\ console' = "Invalid input. Please enter a number or 'q' to quit."
                /\ NoCallMade
           ELSE LET idx == Get(ParseInt(line)) - 1 IN
                IF ~InRange(idx)
                THEN /\ pc' = "select"
                     /\ console' = "Invalid selection. Please try again."
                     /\ NoCallMade
                ELSE LET release == production_releases[idx + 1]
                         prev == PreviousTag(production_releases, idx)
                     IN  IF Truthy(prev)
                         THEN /\ Enter(release, Get(prev))
                              /\ console' = "Processing release"
                         ELSE /\ pc' = "select"
                              /\ console' = "This is the oldest release, no previous release to compare with."
                              /\ NoCallMade
    /\ UNCHANGED <<fetchVars, production_releases, mode, newer_release,
                   older_release, files>>

\* Mutant of OrderRejected: the equal pair passes.
OrderRejectedStrict(newer_idx, older_idx) == newer_idx > older_idx

\* line 250
OrderRejected(newer_idx, older_idx) == newer_idx >= older_idx

\* lines 240-279
CompareSelect ==
    /\ pc = "select"
    /\ mode = <<"2">>
    /\ \E first \in SelectionInputs, second \in SelectionInputs :
        /\ newer_release' = first
        /\ NewUnit
        /\ IF Lower(first) = <<"q">>
           THEN /\ pc' = "exit"
                /\ older_release' = <<>>
                /\ NoCallMade
                /\ UNCHANGED console
           ELSE /\ older_release' = second
                /\ IF IsNone(ParseInt(first)) \/ IsNone(ParseInt(second))
                   THEN /\ pc' = "select"
                        /\ console' = "Invalid input. Please enter a number or 'q' to quit."
                        /\ NoCallMade
                   ELSE LET newer_idx == Get(ParseInt(first)) - 1
                            older_idx == Get(ParseInt(second)) - 1
                        IN  IF ~(InRange(newer_idx) /\ InRange(older_idx))
                            THEN /\ pc' = "select"
                                 /\ console' = "Invalid selection. Please try again."
                                 /\ NoCallMade
                            ELSE IF OrderRejected(newer_idx, older_idx)
                            THEN /\ pc' = "select"
                                 /\ console' = "Error: First release must be newer than second release."
                                 /\ NoCallMade
                            ELSE /\ Enter(production_releases[newer_idx + 1],
                                          production_releases[older_idx + 1].tag_name)
                                 /\ console' = "Comparing changes between:"
    /\ UNCHANGED <<fetchVars, production_releases, mode, selection, files>>

(***************************************************************************)
(* get_commits_between_tags                                                *)
(***************************************************************************)
sessionVars == <<fetchVars, production_releases, mode, inputVars, files>>

\* line 59 raises: the exception passes through generate_release_changelog
\* to the handler of the loop.
CompareTimeout ==
    /\ pc = "compare"
    /\ last_call' = ApiCall("compare", "timeout", FALSE, TRUE)
    /\ Raise
    /\ UNCHANGED <<sessionVars, current_release, previous_tag, changelog,
                   range_calls, llm_calls, written>>

\* lines 60-62: print and return []
CompareFailed ==
    /\ pc = "compare"
    /\ last_call' = ApiCall("compare", "non200", TRUE, FALSE)
    /\ commits' = <<>>
    /\ pc' = "summarize"
    /\ UNCHANGED <<sessionVars, current_release, previous_tag, d, i,
                   commit_summaries, changelog, range_calls, llm_calls,
                   console, written>>

\* lines 64-65
CompareOk ==
    /\ pc = "compare"
    /\ \E cs \in CommitLists :
        /\ commits' = cs
        /\ pc' = IF cs = <<>> THEN "summarize" ELSE "diffs"
    /\ last_call' = ApiCall("compare", "200", FALSE, FALSE)
    /\ UNCHANGED <<sessionVars, current_release, previous_tag, d, i,
                   commit_summaries, changelog, range_calls, llm_calls,
                   console, written>>

AfterDiff == IF d + 1 = Len(commits) THEN "summarize" ELSE "diffs"

\* line 70 raises
DiffTimeout ==
    /\ pc = "diffs"
    /\ last_call' = ApiCall("commit", "timeout", FALSE, TRUE)
    /\ Raise
    /\ UNCHANGED <<sessionVars, current_release, previous_tag, changelog,
                   range_calls, llm_calls, written>>

\* line 71, status_code != 200: nothing is printed, nothing attached
DiffFailed ==
    /\ pc = "diffs"
    /\ last_call' = ApiCall("commit", "non200", FALSE, FALSE)
    /\ d' = d + 1
    /\ pc' = AfterDiff
    /\ UNCHANGED <<sessionVars, current_release, previous_tag, commits, i,
                   commit_summaries, changelog, range_calls, llm_calls,
                   console, written>>

\* lines 71-73
DiffOk ==
    /\ pc = "diffs"
    /\ \E fs \in SessionFileLists :
        commits' = [commits EXCEPT ![d + 1].detailed_diff = Some(fs)]
    /\ last_call' = ApiCall("commit", "200", FALSE, FALSE)
    /\ d' = d + 1
    /\ pc' = AfterDiff
    /\ UNCHANGED <<sessionVars, current_release, previous_tag, i,
                   commit_summaries, changelog, range_calls, llm_calls,
                   console, written>>

(***************************************************************************)
(* summarize_commit                                                        *)
(***************************************************************************)
\* commit.get('detailed_diff', [])
DetailedDiff(commit) ==
    IF IsNone(commit.detailed_diff) THEN <<>> ELSE Get(commit.detailed_diff)

\* file.get('patch', '')
Changes(file) == IF IsNone(file.patch) THEN "" ELSE Get(file.patch)

\* Mutant of HasChanges: the key is tested, not the value.
HasPatchKey(file) == ~IsNone(file.patch)

HasChanges(file) == Changes(file) # ""

\* f"File: {filename}\n{changes}"
DiffEntry(file) == <<"File: ", file.filename, "\n", Changes(file)>>

\* lines 80-85
diff_summary(commit) ==
    LET kept == SelectSeq(DetailedDiff(commit), HasChanges)
    IN  [j \in 1..Len(kept) |-> DiffEntry(kept[j])]

\* line 87
diff_text(commit) ==
    IF diff_summary(commit) # <<>>
    THEN Join(<<"\n\n">>, diff_summary(commit))
    ELSE <<"No detailed changes available">>

\* line 97: the user message
CommitMessage(commit) ==
    <<"Commit message: ", commit.message, "\nAuthor: ", commit.author,
      "\n\nCode Changes:\n">> \o diff_text(commit)

LlmCall(kind, sha, content, output) ==
    [kind |-> kind, sha |-> sha, content |-> content, output |-> output]

(***************************************************************************)
(* generate_release_changelog                                              *)
(***************************************************************************)
\* lines 108-111, get_completion raises inside summarize_commit
SummarizeRaise ==
    /\ pc = "summarize"
    /\ i < Len(commits)
    /\ llm_calls' = Append(llm_calls,
            LlmCall("commit", commits[i + 1].sha, CommitMessage(commits[i + 1]), None))
    /\ Raise
    /\ UNCHANGED <<sessionVars, current_release, previous_tag, changelog,
                   range_calls, written, last_call>>

\* Mutant of SummarizeCommit: the summary is put in front of the list.
SummarizeCommitPrepends ==
    /\ pc = "summarize"
    /\ i < Len(commits)
    /\ \E summary \in Summaries :
        /\ llm_calls' = Append(llm_calls,
                LlmCall("commit", commits[i + 1].sha, CommitMessage(commits[i + 1]),
                        Some(<<summary>>)))
        /\ commit_summaries' = <<<<summary>>>> \o commit_summaries
    /\ i' = i + 1
    /\ UNCHANGED <<sessionVars, pc, current_release, previous_tag, commits, d,
                   changelog, range_calls, console, written, last_call>>

\* lines 108-111
SummarizeCommit ==
    /\ pc = "summarize"
    /\ i < Len(commits)
    /\ \E summary \in Summaries :
        /\ llm_calls' = Append(llm_calls,
                LlmCall("commit", commits[i + 1].sha, CommitMessage(commits[i + 1]),
                        Some(<<summary>>)))
        /\ commit_summaries' = Append(commit_summaries, <<summary>>)
    /\ i' = i + 1
    /\ UNCHANGED <<sessionVars, pc, current_release, previous_tag, commits, d,
                   changelog, range_calls, console, written, last_call>>

\* Mutant of ChangelogInput: an empty list gets a placeholder line.
ChangelogInputPlaceholder(summaries) ==
    IF summaries = <<>> THEN <<"No commits">> ELSE Join(<<"\n">>, summaries)

\* line 159: "\n".join(commit_summaries)
ChangelogInput(summaries) == Join(<<"\n">>, summaries)

\* lines 114-162, get_completion raises
ConsolidateRaise ==
    /\ pc = "summarize"
    /\ i = Len(commits)
    /\ llm_calls' = Append(llm_calls,
            LlmCall("changelog", "", ChangelogInput(commit_summaries), None))
    /\ Raise
    /\ UNCHANGED <<sessionVars, current_release, previous_tag, changelog,
                   range_calls, written, last_call>>

\* lines 114-162
Consolidate ==
    /\ pc = "summarize"
    /\ i = Len(commits)
    /\ \E text \in ChangelogTexts :
        /\ llm_calls' = Append(llm_calls,
                LlmCall("changelog", "", ChangelogInput(commit_summaries),
                        Some(<<text>>)))
        /\ changelog' = Some(<<text>>)
    /\ pc' = "persist"
    /\ UNCHANGED <<sessionVars, current_release, previous_tag, commits, d, i,
                   commit_summaries, range_calls, console, written, last_call>>

(***************************************************************************)
(* main: the changelog is saved.                                           *)
(***************************************************************************)
OutputDir == <<"c", "h", "a", "n", "g", "e", "l", "o", "g", "s">>

\* os.path.join
PathJoin(dir, name) == dir \o <<"/">> \o name

\* lines 221-222
SinglePath(tag) ==
    PathJoin(OutputDir,
             <<"c", "h", "a", "n", "g", "e", "l", "o", "g", "_">>
             \o sanitize_filename(tag) \o <<".", "m", "d">>)

\* lines 269-270
ComparePath(older, newer) ==
    PathJoin(OutputDir,
             <<"c", "o", "m", "p", "a", "r", "i", "s", "o", "n", "_">>
             \o sanitize_filename(older) \o <<"_", "t", "o", "_">>
             \o sanitize_filename(newer) \o <<".", "m", "d">>)

FilePath ==
    IF mode = <<"1">> THEN SinglePath(Get(current_release).tag_name)
    ELSE ComparePath(Get(previous_tag), Get(current_release).tag_name)

\* lines 214-227 and 262-275
Persist ==
    /\ pc = "persist"
    /\ files' = files \cup {FilePath}
    /\ written' = Some([path |-> FilePath,
                        tag |-> Get(current_release).tag_name,
                        text |-> Get(changelog)])
    /\ console' = "Changelog saved"
    /\ pc' = "select"
    /\ DropLocals
    /\ UNCHANGED <<fetchVars, production_releases, mode, inputVars,
                   current_release, previous_tag, changelog, range_calls,
                   llm_calls, last_call>>

(***************************************************************************)
(* The session: main from its first line.                                  *)
(***************************************************************************)
Next ==
    \/ FetchReleasesTimeout
    \/ FetchReleasesFailed
    \/ FetchReleasesPage
    \/ FilterReleases
    \/ SelectMode
    \/ SingleSelect
    \/ CompareSelect
    \/ CompareTimeout
    \/ CompareFailed
    \/ CompareOk
    \/ DiffTimeout
    \/ DiffFailed
    \/ DiffOk
    \/ SummarizeRaise
    \/ SummarizeCommit
    \/ ConsolidateRaise
    \/ Consolidate
    \/ Persist

Spec == Init /\ [][Next]_vars

(***************************************************************************)
(* The file-name specification: the saving step of main on any two tags.   *)
(***************************************************************************)
TagAlphabet == {"a", "_", "/", "\\"}

Tags == UNION {[1..n -> TagAlphabet] : n \in 1..MaxTagLen}

TaggedRelease(t) == [tag_name |-> t, name |-> Some(Marker), body |-> None]

InitFileName ==
    /\ pc = "persist"
    /\ page = 1
    /\ releases = <<>>
    /\ responses = <<>>
    /\ mode \in {<<"1">>, <<"2">>}
    /\ \E t1 \in Tags, t2 \in Tags :
        /\ production_releases = <<TaggedRelease(t1), TaggedRelease(t2)>>
        /\ current_release = Some(TaggedRelease(t1))
        /\ previous_tag = Some(t2)
        /\ range_calls = <<[base |-> t2, head |-> t1]>>
    /\ selection = IF mode = <<"1">> THEN <<"1">> ELSE <<>>
    /\ newer_release = IF mode = <<"2">> THEN <<"1">> ELSE <<>>
    /\ older_release = IF mode = <<"2">> THEN <<"2">> ELSE <<>>
    /\ commits = <<>>
    /\ d = 0
    /\ i = 0
    /\ commit_summaries = <<>>
    /\ changelog = Some(<<"L1">>)
    /\ llm_calls = <<LlmCall("changelog", "", <<>>, Some(<<"L1">>))>>
    /\ console = IF mode = <<"1">> THEN "Processing release"
                 ELSE "Comparing changes between:"
    /\ written = None
    /\ files = {}
    /\ last_call = ApiCall("compare", "200", FALSE, FALSE)

NextFileName == Persist

SpecFileName == InitFileName /\ [][NextFileName]_vars

(***************************************************************************)
(* The summarization specification: summarize_commit on any commit.        *)
(***************************************************************************)
InitSummarize ==
    /\ pc = "summarize"
    /\ page = 1
    /\ releases = <<>>
    /\ responses = <<>>
    /\ mode = <<"1">>
    /\ production_releases = filter_production_releases(
            <<TaggedRelease(<<"a", "/", "b">>), TaggedRelease(<<"a", "_", "b">>)>>)
    /\ current_release = Some(production_releases[1])
    /\ previous_tag = Some(production_releases[2].tag_name)
    /\ range_calls = <<[base |-> Get(previous_tag),
                        head |-> Get(current_release).tag_name]>>
    /\ selection = <<"1">>
    /\ newer_release = <<>>
    /\ older_release = <<>>
    /\ \E c \in CommitUniverse, diff \in {None} \cup {Some(fs) : fs \in FileLists} :
        commits = <<[c EXCEPT !.detailed_diff = diff]>>
    /\ d = 1
    /\ i = 0
    /\ commit_summaries = <<>>
    /\ changelog = None
    /\ llm_calls = <<>>
    /\ console = "Processing release"
    /\ written = None
    /\ files = {}
    /\ last_call \in {ApiCall("commit", "200", FALSE, FALSE),
                      ApiCall("commit", "non200", FALSE, FALSE)}
    /\ (last_call.outcome = "non200") = IsNone(commits[1].detailed_diff)

NextSummarize == SummarizeCommit \/ SummarizeRaise

SpecSummarize == InitSummarize /\ [][NextSummarize]_vars

(***************************************************************************)
(* Properties.                                                             *)
(***************************************************************************)
Parsed(line) == ~IsNone(ParseInt(line))

IndexOf(line) == Get(ParseInt(line)) - 1

RejectionReports ==
    { "Error: First release must be newer than second release.",
      "Invalid selection. Please try again." }

\* C1: in compare mode a pair of entered numbers whose newer position is not
\* strictly less than the older position (equal included) is rejected: range
\* resolution is not called for it, the LLM is not called, no file is
\* written, an error is reported, and the loop is at its prompt again.
C1_UnorderedPairRejected ==
    (/\ mode = <<"2">>
     /\ Parsed(newer_release)
     /\ Parsed(older_release)
     /\ ~(IndexOf(newer_release) < IndexOf(older_release)))
    => /\ range_calls = <<>>
       /\ llm_calls = <<>>
       /\ IsNone(written)
       /\ console \in RejectionReports
       /\ pc = "select"

C1_Witness ==
    /\ mode = <<"2">>
    /\ newer_release = <<"2">>
    /\ older_release = <<"2">>
    /\ Len(production_releases) = 3
    /\ files # {}
    /\ console = "Error: First release must be newer than second release."
    /\ pc = "select"

\* C2: in single mode, for a valid selected index i that is not the last, range
\* resolution is called once, with base the tag of element i+1 and head the
\* tag of the selected release; for the last index nothing is resolved, the
\* LLM is not called, no file is written, and the loop is at its prompt.
C2_PreviousIsNext ==
    (/\ mode = <<"1">>
     /\ Parsed(selection)
     /\ InRange(IndexOf(selection)))
    => LET idx == IndexOf(selection) IN
       IF idx + 1 = Len(production_releases)
       THEN /\ range_calls = <<>>
            /\ llm_calls = <<>>
            /\ IsNone(written)
            /\ IsNone(previous_tag)
            /\ pc = "select"
            /\ console = "This is the oldest release, no previous release to compare with."
       ELSE /\ range_calls = <<[base |-> production_releases[idx + 2].tag_name,
                                head |-> production_releases[idx + 1].tag_name]>>
            /\ previous_tag = Some(production_releases[idx + 2].tag_name)

C2_Witness ==
    /\ mode = <<"1">>
    /\ selection = <<"2">>
    /\ Len(production_releases) = 3
    /\ range_calls = <<[base |-> production_releases[3].tag_name,
                        head |-> production_releases[2].tag_name]>>
    /\ ~IsNone(written)

LoopPlaces == {"select", "compare", "diffs", "summarize", "persist"}

PromptLine == IF mode = <<"1">> THEN selection ELSE newer_release

BadSelection ==
    IF mode = <<"1">>
    THEN ~Parsed(selection) \/ ~InRange(IndexOf(selection))
    ELSE \/ ~Parsed(newer_release)
         \/ ~Parsed(older_release)
         \/ ~InRange(IndexOf(newer_release))
         \/ ~InRange(IndexOf(older_release))

BadSelectionReports ==
    { "Invalid input. Please enter a number or 'q' to quit.",
      "Invalid selection. Please try again." }

\* C3: the session leaves a selection loop only when 'q' is typed at the
\* prompt; a line that is no number, an index out of range, and an exception
\* raised by range resolution, summarization or consolidation are each
\* reported and followed by the prompt, and the pass that raised writes no file.
C3_LoopEndsOnlyOnQuit ==
    /\ [](pc \in (LoopPlaces \cup {"exit"}) /\ mode \in {<<"1">>, <<"2">>}
            => /\ pc = "exit" => Lower(PromptLine) = <<"q">>
               /\ (PromptLine # <<>> /\ Lower(PromptLine) # <<"q">> /\ BadSelection)
                    => /\ pc = "select"
                       /\ console \in BadSelectionReports
                       /\ IsNone(written))
    /\ [][ /\ (pc \in LoopPlaces /\ pc' \notin LoopPlaces)
               => (pc = "select" /\ pc' = "exit")
           /\ (pc \in {"compare", "diffs", "summarize"} /\ pc' = "select")
               => (console' = ErrorReport /\ IsNone(written'))
           /\ (pc \in LoopPlaces /\ IsNone(written')) => files' = files
         ]_vars

C3_Witness ==
    /\ pc = "select"
    /\ console = "Error processing comparison"
    /\ Len(llm_calls) = 2
    /\ llm_calls[1].kind = "commit"
    /\ IsNone(llm_calls[2].output)
    /\ IsNone(written)
    /\ files # {}

\* C4: with an empty commit list no per-commit summarization is requested, the
\* consolidation is requested exactly once with the empty string as its user
\* message, an exception can then only be the LLM's, and the answer is saved.
C4_EmptyCommitList ==
    [][ /\ (pc = "summarize" /\ commits = <<>>)
            => /\ llm_calls = <<>>
               /\ Len(llm_calls') = 1
               /\ llm_calls'[1].kind = "changelog"
               /\ llm_calls'[1].content = <<>>
               /\ (pc' = "persist" \/ IsNone(llm_calls'[1].output))
               /\ pc' = "persist" => changelog' = llm_calls'[1].output
        /\ (pc = "persist")
            => /\ pc' = "select"
               /\ ~IsNone(written')
               /\ Get(written').text = Get(changelog)
               /\ Get(written').path \in files'
      ]_vars

C4_Witness ==
    /\ pc = "select"
    /\ ~IsNone(written)
    /\ last_call = ApiCall("compare", "200", FALSE, FALSE)
    /\ Len(llm_calls) = 1
    /\ llm_calls[1].content = <<>>

ValidTag(t) ==
    /\ t # <<>>
    /\ Count("\\", t) = 0
    /\ Head(t) # "/"
    /\ t[Len(t)] # "/"
    /\ \A p \in 1..(Len(t) - 1) : ~(t[p] = "/" /\ t[p + 1] = "/")

\* C5: sanitize_filename is injective on valid tags: two releases with distinct
\* tags never get the same changelog file name.
C5_Injective ==
    \A p, q \in 1..Len(production_releases) :
        LET t1 == production_releases[p].tag_name
            t2 == production_releases[q].tag_name
        IN  (ValidTag(t1) /\ ValidTag(t2) /\ t1 # t2)
            => /\ sanitize_filename(t1) # sanitize_filename(t2)
               /\ SinglePath(t1) # SinglePath(t2)

\* C6: the sanitized tag has the length of the tag and holds neither '/' nor
\* '\', so the path of a saved file holds one separator, the one that
\* os.path.join puts after the directory.
C6_NoSeparatorFromTag ==
    ~IsNone(written)
    => LET path == Get(written).path
           head == Get(current_release).tag_name
           base == Get(previous_tag)
       IN  /\ Count("/", path) = 1
           /\ Count("\\", path) = 0
           /\ path[Len(OutputDir) + 1] = "/"
           /\ Len(sanitize_filename(head)) = Len(head)
           /\ Len(sanitize_filename(base)) = Len(base)
           /\ Len(path) = IF mode = <<"1">>
                          THEN Len(OutputDir) + 1 + 10 + Len(head) + 3
                          ELSE Len(OutputDir) + 1 + 11 + Len(base) + 4 + Len(head) + 3

C6_Witness ==
    /\ ~IsNone(written)
    /\ mode = <<"2">>
    /\ Get(current_release).tag_name = <<"/", "\\", "a">>
    /\ Get(previous_tag) = <<"\\", "/">>

PatchedPositions(fs) ==
    {p \in 1..Len(fs) : ~IsNone(fs[p].patch) /\ Get(fs[p].patch) # ""}

\* the m-th smallest element of a set of numbers
Nth(S, m) == CHOOSE x \in S : Cardinality({y \in S : y < x}) = m - 1

IsDiffTextOf(text, commit) ==
    LET fs == IF IsNone(commit.detailed_diff) THEN <<>> ELSE Get(commit.detailed_diff)
        ps == PatchedPositions(fs)
        n == Cardinality(ps)
    IN  IF n = 0
        THEN text = <<"No detailed changes available">>
        ELSE /\ Len(text) = 5 * n - 1
             /\ \A m \in 1..n :
                  LET f == fs[Nth(ps, m)]
                      at == 5 * (m - 1)
                  IN  /\ text[at + 1] = "File: "
                      /\ text[at + 2] = f.filename
                      /\ text[at + 3] = "\n"
                      /\ text[at + 4] = Get(f.patch)
                      /\ m < n => text[at + 5] = "\n\n"

DiffPart(content) == SubSeq(content, 6, Len(content))

\* C7: the diff text put into the per-commit request is the literal "No
\* detailed changes available" when no file of the commit has a non-empty
\* patch (no files, no patches, or no detailed_diff); otherwise it is one entry
\* per file that has a patch, in file order, files without a patch left out.
C7_DiffText ==
    [][ (pc = "summarize" /\ i < Len(commits) /\ llm_calls' # llm_calls)
        => LET call == llm_calls'[Len(llm_calls')]
           IN  /\ call.kind = "commit"
               /\ SubSeq(call.content, 1, 5) =
                    <<"Commit message: ", commits[i + 1].message, "\nAuthor: ",
                      commits[i + 1].author, "\n\nCode Changes:\n">>
               /\ IsDiffTextOf(DiffPart(call.content), commits[i + 1])
      ]_vars

C7_Witness ==
    /\ Len(llm_calls) = 1
    /\ Len(commits) = 1
    /\ DetailedDiff(commits[1]) =
         <<FileChange("f1", Some("P1")), FileChange("f2", None),
           FileChange("f2", Some("P1"))>>
    /\ DiffPart(llm_calls[1].content) =
         <<"File: ", "f1", "\n", "P1", "\n\n", "File: ", "f2", "\n", "P1">>

\* C8: a non-200 response or a timeout of a hosting-API request is reported
\* on the console and is never raised out of the client function.
C8_FailureReportedNotRaised ==
    last_call.outcome \in {"non200", "timeout"}
    => (last_call.reported /\ ~last_call.raised)

ItemsOf(rs) == Concat([r \in 1..Len(rs) |-> rs[r].items])

\* C9: fetch_releases requests pages 1, 2, 3, ... in order; it goes on while
\* pages with items arrive, returns the pages before the first empty page
\* concatenated in page order, and returns the empty list on a non-200
\* response whatever it had collected.
C9_Pagination ==
    pc \in {"fetch_releases", "fetched"}
    => LET n == Len(responses)
           before == IF pc = "fetched" THEN SubSeq(responses, 1, n - 1) ELSE responses
       IN  /\ \A r \in 1..n : responses[r].page = r
           /\ \A r \in 1..Len(before) :
                before[r].status = "200" /\ before[r].items # <<>>
           /\ pc = "fetch_releases"
                => (page = n + 1 /\ releases = ItemsOf(responses))
           /\ pc = "fetched"
                => /\ n >= 1
                   /\ \/ /\ responses[n].status = "200"
                         /\ responses[n].items = <<>>
                         /\ releases = ItemsOf(before)
                      \/ /\ responses[n].status = "non200"
                         /\ releases = <<>>

C9_Witness ==
    /\ pc = "fetched"
    /\ Len(responses) = 3
    /\ responses[3].status = "non200"
    /\ Len(responses[1].items) = 2
    /\ releases = <<>>

\* C10: while generate_release_changelog runs, the requests to the LLM are
\* one per commit in the order of the commit list, the k-th answer is the
\* k-th summary, the consolidation is requested after all of them, and its
\* user message is the summaries in that order with a newline between them.
C10_SummariesInOrder ==
    pc \in {"summarize", "persist"}
    => LET n == Len(commits) IN
       /\ Len(commit_summaries) = i
       /\ i <= n
       /\ Len(llm_calls) = IF pc = "persist" THEN n + 1 ELSE i
       /\ \A k \in 1..i :
            /\ llm_calls[k].kind = "commit"
            /\ llm_calls[k].sha = commits[k].sha
            /\ llm_calls[k].content[2] = commits[k].message
            /\ llm_calls[k].output = Some(commit_summaries[k])
       /\ pc = "persist"
            => LET last == llm_calls[n + 1] IN
               /\ i = n
               /\ last.kind = "changelog"
               /\ Len(last.content) = IF n = 0 THEN 0 ELSE 2 * n - 1
               /\ \A k \in 1..n :
                    /\ <<last.content[2 * k - 1]>> = Get(llm_calls[k].output)
                    /\ k < n => last.content[2 * k] = "\n"

C10_Witness ==
    /\ pc = "persist"
    /\ Len(commits) = 2
    /\ commits[1].sha = "c2"
    /\ llm_calls[1].output = Some(<<"s2">>)
    /\ llm_calls[2].output = Some(<<"s1">>)
    /\ llm_calls[3].content = <<"s2", "\n", "s1">>

====
